---------------------------- MODULE Spec2Model ----------------------------
(***************************************************************************)
(* Model of the smart-store ETL: scripts/etl_to_dw.py (full-refresh load   *)
(* of a SQLite star schema through pandas.DataFrame.to_sql) and the two    *)
(* cleaning scripts under scripts/data_preparation.                        *)
(*                                                                         *)
(* Three specifications:                                                   *)
(*   Spec       runs of load_data_to_db against one warehouse file         *)
(*   SpecStores insert_stores as a function of the sales rows              *)
(*   SpecPrep   the duplicate removal of the cleaning scripts              *)
(***************************************************************************)
EXTENDS Integers, Sequences, FiniteSets, TLC

\* ------------------------------------------------------------------ bounds
\* rows per prepared file, and invocations of the script
MaxRows == 2
MaxRuns == 2

\* key values that occur in the prepared files
CustomerIDs == {1}
ProductIDs == {1}
StoreIDs == {1, 2}
TransactionIDs == {1, 2}

VARIABLES
    files,          \* data/prepared/*.csv: [customers, products, sales]
    schema,         \* TRUE once the four tables exist in the database file
    committed,      \* durable contents of the four tables
    working,        \* contents as seen by the open connection
    inTxn,          \* the connection has an open (implicit) transaction
    conn,           \* local `conn`: "unbound" | "open" | "closed"
    customers_df, products_df, sales_df,
    pc,             \* position inside load_data_to_db
    exc,            \* exception in flight / propagated: "none" | name
    failedAt,       \* step whose statement raised, "none" if none did
    cause,          \* "none" | "env" | "integrity"
    rolledBack,     \* line 184 conn.rollback() was executed
    log,            \* steps of this run that completed, in order
    atStart,        \* committed contents when this run began
    runs, rerun, prevDb,
    st_sales, st_dim_store, st_first, st_pc,    \* SpecStores
    raw_products, prepared_products,           \* SpecPrep
    raw_campaigns, prepared_campaigns, prep_pc

runVars == <<files, schema, committed, working, inTxn, conn, customers_df,
             products_df, sales_df, pc, exc, failedAt, cause, rolledBack,
             log, atStart, runs, rerun, prevDb>>
storeVars == <<st_sales, st_dim_store, st_first, st_pc>>
prepVars == <<raw_products, prepared_products, raw_campaigns,
              prepared_campaigns, prep_pc>>
vars == <<runVars, storeVars, prepVars>>

\* --------------------------------------------------------------- helpers
Range(s) == {s[i] : i \in 1..Len(s)}

SeqsUpTo(S, n) == UNION {[1..k -> S] : k \in 0..n}

\* variant: the column is taken as it is, repeated values included
unique_keep_all(s) == s

\* pandas.Series.unique(): distinct values in order of first appearance
RECURSIVE unique(_)
unique(s) ==
    IF s = <<>> THEN <<>>
    ELSE LET init == unique(SubSeq(s, 1, Len(s) - 1))
             x == s[Len(s)]
         IN IF x \in Range(init) THEN init ELSE Append(init, x)

\* f"Store {store_id}"
store_name(id) == "Store " \o ToString(id)

\* ------------------------------------------------------- prepared inputs
\* A row carries its key columns and, for a sale, its three references;
\* the remaining columns are copied unchanged by every loader and decide
\* no branch, they are left out.
CustomerRows == [CustomerID : CustomerIDs]
ProductRows == [ProductID : ProductIDs]
SalesRows == [TransactionID : TransactionIDs, CustomerID : CustomerIDs,
              ProductID : ProductIDs, StoreID : StoreIDs]

Inputs == [customers : SeqsUpTo(CustomerRows, MaxRows),
           products : SeqsUpTo(ProductRows, MaxRows),
           sales : SeqsUpTo(SalesRows, MaxRows)]

\* ------------------------------------------------------------- database
Tables == {"dim_customer", "dim_product", "dim_store", "fact_sales"}

EmptyDb == [t \in Tables |-> {}]

NoFiles == [customers |-> <<>>, products |-> <<>>, sales |-> <<>>]

\* column declared INTEGER PRIMARY KEY in each CREATE TABLE
primary_key(t, row) ==
    CASE t = "dim_customer" -> row.customer_id
      [] t = "dim_product" -> row.product_id
      [] t = "dim_store" -> row.store_id
      [] t = "fact_sales" -> row.transaction_id

\* sqlite3.connect() never issues PRAGMA foreign_keys = ON, so the FOREIGN
\* KEY clauses of fact_sales are parsed and not enforced.
foreign_keys == FALSE

foreign_key_violation(db, t, rows) ==
    /\ foreign_keys
    /\ t = "fact_sales"
    /\ \E i \in 1..Len(rows) :
          \/ rows[i].customer_id \notin {r.customer_id : r \in db["dim_customer"]}
          \/ rows[i].product_id \notin {r.product_id : r \in db["dim_product"]}
          \/ rows[i].store_id \notin {r.store_id : r \in db["dim_store"]}

\* variant: no uniqueness check on the key column
primary_key_not_enforced(db, t, rows) == FALSE

\* UNIQUE constraint failed: two rows of the frame, or a row of the frame
\* and a row already in the table, share the primary key
primary_key_violation(db, t, rows) ==
    \/ \E i, j \in 1..Len(rows) :
          i # j /\ primary_key(t, rows[i]) = primary_key(t, rows[j])
    \/ \E i \in 1..Len(rows) :
          primary_key(t, rows[i]) \in {primary_key(t, r) : r \in db[t]}

\* DataFrame.to_sql(t, cursor.connection, if_exists="append", index=False):
\* an empty frame returns before any statement; otherwise the INSERTs run
\* inside pandas' run_transaction(), which commits the CONNECTION on
\* success and rolls it back on an exception before re-raising.
to_sql(t, rows) ==
    IF rows = <<>>
    THEN [ok |-> TRUE, working |-> working, committed |-> committed,
          inTxn |-> inTxn]
    ELSE IF primary_key_violation(working, t, rows)
              \/ foreign_key_violation(working, t, rows)
    THEN [ok |-> FALSE, working |-> committed, committed |-> committed,
          inTxn |-> FALSE]
    ELSE LET w == [working EXCEPT ![t] = @ \cup Range(rows)]
         IN [ok |-> TRUE, working |-> w, committed |-> w, inTxn |-> FALSE]

\* ------------------------------------------------ frames built by loaders
customer_data(df) == [i \in 1..Len(df) |-> [customer_id |-> df[i].CustomerID]]

product_data(df) == [i \in 1..Len(df) |-> [product_id |-> df[i].ProductID]]

\* variant: only the store of the first sales row is kept
store_data_first_only(df) ==
    IF df = <<>> THEN <<>>
    ELSE <<[store_id |-> df[1].StoreID, store_name |-> store_name(df[1].StoreID)]>>

store_data(df) ==
    LET store_ids == unique([i \in 1..Len(df) |-> df[i].StoreID])
    IN [i \in 1..Len(store_ids) |->
           [store_id |-> store_ids[i], store_name |-> store_name(store_ids[i])]]

sales_data(df) ==
    [i \in 1..Len(df) |->
        [transaction_id |-> df[i].TransactionID,
         customer_id |-> df[i].CustomerID,
         product_id |-> df[i].ProductID,
         store_id |-> df[i].StoreID]]

\* ------------------------------------------------------ load_data_to_db
StepOrder == <<"create_schema", "delete_fact_sales", "delete_dim_customer",
               "delete_dim_product", "delete_dim_store", "read_csv",
               "insert_customers", "insert_products", "insert_stores",
               "insert_sales", "commit">>

Terminal == pc \in {"returned", "raised"}

InitRun ==
    /\ files \in Inputs
    /\ schema = FALSE
    /\ committed = EmptyDb
    /\ working = EmptyDb
    /\ inTxn = FALSE
    /\ conn = "unbound"
    /\ customers_df = <<>> /\ products_df = <<>> /\ sales_df = <<>>
    /\ pc = "connect"
    /\ exc = "none" /\ failedAt = "none" /\ cause = "none"
    /\ rolledBack = FALSE
    /\ log = <<>>
    /\ atStart = EmptyDb
    /\ runs = 1 /\ rerun = FALSE /\ prevDb = EmptyDb

IdleRun ==
    /\ files = NoFiles
    /\ schema = FALSE
    /\ committed = EmptyDb
    /\ working = EmptyDb
    /\ inTxn = FALSE
    /\ conn = "unbound"
    /\ customers_df = <<>> /\ products_df = <<>> /\ sales_df = <<>>
    /\ pc = "off"
    /\ exc = "none" /\ failedAt = "none" /\ cause = "none"
    /\ rolledBack = FALSE
    /\ log = <<>>
    /\ atStart = EmptyDb
    /\ runs = 0 /\ rerun = FALSE /\ prevDb = EmptyDb

\* a statement raised: control passes to `except Exception`
raise(step, why) ==
    /\ pc' = "except"
    /\ exc' = "Error"
    /\ failedAt' = step
    /\ cause' = why

done(step, next) ==
    /\ pc' = next
    /\ log' = Append(log, step)
    /\ UNCHANGED <<exc, failedAt, cause>>

\* line 155-156: conn = sqlite3.connect(DB_PATH); cursor = conn.cursor()
connect ==
    /\ pc = "connect"
    /\ conn' = "open"
    /\ working' = committed
    /\ inTxn' = FALSE
    /\ pc' = "create_schema"
    /\ UNCHANGED <<files, schema, committed, customers_df, products_df,
                   sales_df, exc, failedAt, cause, rolledBack, log, atStart,
                   runs, rerun, prevDb>>

\* CREATE TABLE IF NOT EXISTS x 4: DDL opens no implicit transaction, it is
\* durable as soon as it is executed
create_schema ==
    /\ pc = "create_schema"
    /\ schema' = TRUE
    /\ done("create_schema", "delete_fact_sales")
    /\ UNCHANGED <<files, committed, working, inTxn, conn, customers_df,
                   products_df, sales_df, rolledBack, atStart, runs, rerun,
                   prevDb>>

\* cursor.execute("DELETE FROM t"): opens the implicit transaction
delete_from(t, step, next) ==
    /\ pc = step
    /\ working' = [working EXCEPT ![t] = {}]
    /\ inTxn' = TRUE
    /\ done(step, next)
    /\ UNCHANGED <<files, schema, committed, conn, customers_df, products_df,
                   sales_df, rolledBack, atStart, runs, rerun, prevDb>>

\* variant: the statement is left out, control moves on
delete_skipped(step, next) ==
    /\ pc = step
    /\ done(step, next)
    /\ UNCHANGED <<files, schema, committed, working, inTxn, conn,
                   customers_df, products_df, sales_df, rolledBack, atStart,
                   runs, rerun, prevDb>>

delete_fact_sales_skipped ==
    delete_skipped("delete_fact_sales", "delete_dim_customer")

delete_dim_store_skipped == delete_skipped("delete_dim_store", "read_csv")

delete_fact_sales ==
    delete_from("fact_sales", "delete_fact_sales", "delete_dim_customer")

delete_dim_customer ==
    delete_from("dim_customer", "delete_dim_customer", "delete_dim_product")

delete_dim_product ==
    delete_from("dim_product", "delete_dim_product", "delete_dim_store")

delete_dim_store ==
    delete_from("dim_store", "delete_dim_store", "read_csv")

\* lines 165-167
read_csv ==
    /\ pc = "read_csv"
    /\ customers_df' = files.customers
    /\ products_df' = files.products
    /\ sales_df' = files.sales
    /\ done("read_csv", "insert_customers")
    /\ UNCHANGED <<files, schema, committed, working, inTxn, conn,
                   rolledBack, atStart, runs, rerun, prevDb>>

\* one loader: build the frame, hand it to to_sql
insert(t, rows, step, next) ==
    /\ pc = step
    /\ LET r == to_sql(t, rows)
       IN /\ working' = r.working
          /\ committed' = r.committed
          /\ inTxn' = r.inTxn
          /\ IF r.ok
             THEN done(step, next)
             ELSE raise(step, "integrity") /\ UNCHANGED log
    /\ UNCHANGED <<files, schema, conn, customers_df, products_df, sales_df,
                   rolledBack, atStart, runs, rerun, prevDb>>

insert_customers ==
    insert("dim_customer", customer_data(customers_df),
           "insert_customers", "insert_products")

insert_products ==
    insert("dim_product", product_data(products_df),
           "insert_products", "insert_stores")

insert_stores ==
    insert("dim_store", store_data(sales_df), "insert_stores", "insert_sales")

insert_sales ==
    insert("fact_sales", sales_data(sales_df), "insert_sales", "commit")

\* line 178: conn.commit()
commit ==
    /\ pc = "commit"
    /\ committed' = working
    /\ inTxn' = FALSE
    /\ done("commit", "finally")
    /\ UNCHANGED <<files, schema, working, conn, customers_df, products_df,
                   sales_df, rolledBack, atStart, runs, rerun, prevDb>>

\* any statement of the try block may raise for a reason outside the data
\* (database file not reachable or locked, prepared file missing, I/O error)
FaultPoints == {"connect"} \cup Range(StepOrder)

statement_raises ==
    /\ pc \in FaultPoints
    /\ raise(pc, "env")
    /\ UNCHANGED <<files, schema, committed, working, inTxn, conn,
                   customers_df, products_df, sales_df, rolledBack, log,
                   atStart, runs, rerun, prevDb>>

\* variant: the handler re-raises without rolling back
except_without_rollback ==
    /\ pc = "except"
    /\ pc' = "finally"
    /\ UNCHANGED <<files, schema, committed, working, inTxn, conn,
                   customers_df, products_df, sales_df, exc, failedAt, cause,
                   rolledBack, log, atStart, runs, rerun, prevDb>>

\* lines 181-185: log; `if conn: conn.rollback()`; raise.  When connect()
\* itself raised, `conn` was never bound and evaluating it raises
\* UnboundLocalError from inside the handler.
except ==
    /\ pc = "except"
    /\ IF conn = "unbound"
       THEN /\ exc' = "UnboundLocalError"
            /\ UNCHANGED <<working, inTxn, rolledBack>>
       ELSE /\ working' = committed
            /\ inTxn' = FALSE
            /\ rolledBack' = TRUE
            /\ UNCHANGED exc
    /\ pc' = "finally"
    /\ UNCHANGED <<files, schema, committed, conn, customers_df, products_df,
                   sales_df, failedAt, cause, log, atStart, runs, rerun,
                   prevDb>>

\* variant: close() is reached on the success path only
finally_close_on_success_only ==
    /\ pc = "finally"
    /\ IF exc = "none"
       THEN /\ conn' = "closed" /\ pc' = "returned"
       ELSE /\ pc' = "raised" /\ UNCHANGED conn
    /\ working' = committed
    /\ inTxn' = FALSE
    /\ UNCHANGED <<files, schema, committed, customers_df, products_df,
                   sales_df, exc, failedAt, cause, rolledBack, log, atStart,
                   runs, rerun, prevDb>>

\* lines 186-188: `if conn: conn.close()`; close() discards an open
\* transaction
finally ==
    /\ pc = "finally"
    /\ IF conn = "unbound"
       THEN /\ exc' = "UnboundLocalError"
            /\ pc' = "raised"
            /\ UNCHANGED <<conn, working, inTxn>>
       ELSE /\ conn' = "closed"
            /\ working' = committed
            /\ inTxn' = FALSE
            /\ pc' = IF exc = "none" THEN "returned" ELSE "raised"
            /\ UNCHANGED exc
    /\ UNCHANGED <<files, schema, committed, customers_df, products_df,
                   sales_df, failedAt, cause, rolledBack, log, atStart, runs,
                   rerun, prevDb>>

\* the process ends: the locals of load_data_to_db are gone, the database
\* file and the prepared files stay
exit ==
    /\ Terminal
    /\ pc' = "exited"
    /\ files' = NoFiles
    /\ customers_df' = <<>> /\ products_df' = <<>> /\ sales_df' = <<>>
    /\ conn' = "unbound"
    /\ exc' = "none" /\ failedAt' = "none" /\ cause' = "none"
    /\ rolledBack' = FALSE
    /\ log' = <<>>
    /\ atStart' = committed
    /\ rerun' = FALSE
    /\ prevDb' = EmptyDb
    /\ UNCHANGED <<schema, committed, working, inTxn, runs>>

\* the script is started on the prepared files f
start(f, again) ==
    /\ runs < MaxRuns
    /\ runs' = runs + 1
    /\ files' = f
    /\ rerun' = again
    /\ prevDb' = IF again THEN committed ELSE EmptyDb
    /\ atStart' = committed
    /\ working' = committed
    /\ inTxn' = FALSE
    /\ conn' = "unbound"
    /\ customers_df' = <<>> /\ products_df' = <<>> /\ sales_df' = <<>>
    /\ pc' = "connect"
    /\ exc' = "none" /\ failedAt' = "none" /\ cause' = "none"
    /\ rolledBack' = FALSE
    /\ log' = <<>>
    /\ UNCHANGED <<schema, committed>>

\* next invocation after the cleaning stage rewrote the prepared files
run_with_new_inputs ==
    /\ pc = "exited"
    /\ \E f \in Inputs : start(f, FALSE)

\* next invocation with unchanged prepared files, after a successful run
run_again == pc = "returned" /\ start(files, TRUE)

\* ------------------------------------------------------------ SpecStores
\* insert_stores on its own: the sales frame is reordered and grown with
\* repeated StoreIDs between loads into an empty dim_store
MaxSalesLen == 4
MaxStoreKey == 3

sales_row(t, s) ==
    [TransactionID |-> t, CustomerID |-> 1, ProductID |-> 1, StoreID |-> s]

StoreColumns == SeqsUpTo(1..MaxStoreKey, MaxSalesLen)

IdleStores ==
    /\ st_sales = <<>> /\ st_dim_store = {} /\ st_first = {}
    /\ st_pc = "off"

InitStores ==
    /\ \E ids \in StoreColumns :
          st_sales = [i \in 1..Len(ids) |-> sales_row(i, ids[i])]
    /\ st_dim_store = {}
    /\ st_first = {}
    /\ st_pc = "new"

\* lines 111-127 against an empty dim_store
st_insert_stores ==
    /\ st_pc \in {"new", "changed"}
    /\ LET r == to_sql("dim_store", store_data(st_sales))
           t == IF r.ok THEN r.working["dim_store"] ELSE {}
       IN /\ st_dim_store' = t
          /\ st_first' = IF st_pc = "new" THEN t ELSE st_first
    /\ st_pc' = "loaded"
    /\ UNCHANGED st_sales

\* the same rows in another order
st_swap_rows ==
    /\ st_pc = "loaded"
    /\ \E i \in 1..(Len(st_sales) - 1) :
          /\ st_sales[i] # st_sales[i + 1]
          /\ st_sales' = [st_sales EXCEPT ![i] = st_sales[i + 1],
                                          ![i + 1] = st_sales[i]]
    /\ st_pc' = "changed"
    /\ UNCHANGED <<st_dim_store, st_first>>

\* one more sale of a store that already occurs
st_repeat_store ==
    /\ st_pc = "loaded"
    /\ Len(st_sales) < MaxSalesLen
    /\ \E i \in 1..Len(st_sales) :
          st_sales' = Append(st_sales,
                             sales_row(Len(st_sales) + 1, st_sales[i].StoreID))
    /\ st_pc' = "changed"
    /\ UNCHANGED <<st_dim_store, st_first>>

NextStores ==
    \/ st_insert_stores /\ UNCHANGED <<runVars, prepVars>>
    \/ st_swap_rows /\ UNCHANGED <<runVars, prepVars>>
    \/ st_repeat_store /\ UNCHANGED <<runVars, prepVars>>

\* ------------------------------------------------------------ SpecPrep
MaxRawRows == 2
MaxRawID == 2

RawNames == {"Alpha", "Beta"}

RawProducts == [ProductID : 1..MaxRawID, ProductName : RawNames]
RawCampaigns == [campaignid : 1..MaxRawID, campaignname : RawNames]

\* DataFrame.drop_duplicates(subset=cols), keep="first": a row is dropped
\* when an earlier row agrees with it on every column of cols
RECURSIVE drop_duplicates(_, _)
drop_duplicates(df, cols) ==
    IF df = <<>> THEN <<>>
    ELSE LET init == SubSeq(df, 1, Len(df) - 1)
             x == df[Len(df)]
             kept == drop_duplicates(init, cols)
         IN IF \E i \in 1..Len(init) : \A c \in cols : init[i][c] = x[c]
            THEN kept
            ELSE Append(kept, x)

\* prepare_campaigns_data.remove_duplicates
remove_duplicates(df) == drop_duplicates(df, {"campaignid"})

IdlePrep ==
    /\ raw_products = <<>> /\ prepared_products = <<>>
    /\ raw_campaigns = <<>> /\ prepared_campaigns = <<>>
    /\ prep_pc = [products |-> "off", campaigns |-> "off"]

InitPrep ==
    /\ raw_products \in SeqsUpTo(RawProducts, MaxRawRows)
    /\ raw_campaigns \in SeqsUpTo(RawCampaigns, MaxRawRows)
    /\ prepared_products = <<>>
    /\ prepared_campaigns = <<>>
    /\ prep_pc = [products |-> "start", campaigns |-> "start"]

\* prepare_products_data.process_data: an empty frame writes nothing,
\* otherwise df.drop_duplicates() (all columns) is written
process_data ==
    /\ prep_pc.products = "start"
    /\ IF raw_products = <<>>
       THEN /\ prep_pc' = [prep_pc EXCEPT !.products = "nothing"]
            /\ UNCHANGED prepared_products
       ELSE /\ prepared_products' =
                   drop_duplicates(raw_products, {"ProductID", "ProductName"})
            /\ prep_pc' = [prep_pc EXCEPT !.products = "written"]
    /\ UNCHANGED <<raw_products, raw_campaigns, prepared_campaigns>>

\* prepare_campaigns_data.main: remove_duplicates, then the cleaning steps
\* that keep every row, then save
prepare_campaigns ==
    /\ prep_pc.campaigns = "start"
    /\ prepared_campaigns' = remove_duplicates(raw_campaigns)
    /\ prep_pc' = [prep_pc EXCEPT !.campaigns = "written"]
    /\ UNCHANGED <<raw_products, raw_campaigns, prepared_products>>

NextPrep ==
    \/ process_data /\ UNCHANGED <<runVars, storeVars>>
    \/ prepare_campaigns /\ UNCHANGED <<runVars, storeVars>>

\* ------------------------------------------------------- specifications
Init == InitRun /\ IdleStores /\ IdlePrep

otherVars == <<storeVars, prepVars>>

Next ==
    \/ connect /\ UNCHANGED otherVars
    \/ create_schema /\ UNCHANGED otherVars
    \/ delete_fact_sales /\ UNCHANGED otherVars
    \/ delete_dim_customer /\ UNCHANGED otherVars
    \/ delete_dim_product /\ UNCHANGED otherVars
    \/ delete_dim_store /\ UNCHANGED otherVars
    \/ read_csv /\ UNCHANGED otherVars
    \/ insert_customers /\ UNCHANGED otherVars
    \/ insert_products /\ UNCHANGED otherVars
    \/ insert_stores /\ UNCHANGED otherVars
    \/ insert_sales /\ UNCHANGED otherVars
    \/ commit /\ UNCHANGED otherVars
    \/ statement_raises /\ UNCHANGED otherVars
    \/ except /\ UNCHANGED otherVars
    \/ finally /\ UNCHANGED otherVars
    \/ exit /\ UNCHANGED otherVars
    \/ run_with_new_inputs /\ UNCHANGED otherVars
    \/ run_again /\ UNCHANGED otherVars

Spec == Init /\ [][Next]_vars

StoresInit == IdleRun /\ InitStores /\ IdlePrep

SpecStores == StoresInit /\ [][NextStores]_vars

PrepInit == IdleRun /\ IdleStores /\ InitPrep

SpecPrep == PrepInit /\ [][NextPrep]_vars


\* ================================================================ claims
\* what a complete load of the prepared files f puts into the four tables
CustomerKeys(f) == {f.customers[i].CustomerID : i \in 1..Len(f.customers)}
ProductKeys(f) == {f.products[i].ProductID : i \in 1..Len(f.products)}
StoreKeys(f) == {f.sales[i].StoreID : i \in 1..Len(f.sales)}
SaleKeys(f) == {f.sales[i].TransactionID : i \in 1..Len(f.sales)}

Snapshot(f) ==
    [dim_customer |-> {[customer_id |-> k] : k \in CustomerKeys(f)},
     dim_product |-> {[product_id |-> k] : k \in ProductKeys(f)},
     dim_store |-> {[store_id |-> k, store_name |-> "Store " \o ToString(k)] :
                       k \in StoreKeys(f)},
     fact_sales |-> {[transaction_id |-> f.sales[i].TransactionID,
                      customer_id |-> f.sales[i].CustomerID,
                      product_id |-> f.sales[i].ProductID,
                      store_id |-> f.sales[i].StoreID] : i \in 1..Len(f.sales)}]

DuplicateKey(f) ==
    \/ Cardinality(CustomerKeys(f)) < Len(f.customers)
    \/ Cardinality(ProductKeys(f)) < Len(f.products)
    \/ Cardinality(SaleKeys(f)) < Len(f.sales)

DanglingReference(f) ==
    \E i \in 1..Len(f.sales) :
        \/ f.sales[i].CustomerID \notin CustomerKeys(f)
        \/ f.sales[i].ProductID \notin ProductKeys(f)
        \/ f.sales[i].StoreID \notin StoreKeys(f)

\* C1: a run that fails at any step after the connection was opened leaves
\* the durable contents of the four tables as they were when it began.
C1_AllOrNothing ==
    (pc = "raised" /\ conn # "unbound") => committed = atStart

\* C2: after a successful run no table holds a row whose primary key is
\* absent from the input just loaded; the warehouse is exactly that input.
C2_PurgeBeforeLoad ==
    pc = "returned" =>
        /\ \A r \in committed["dim_customer"] : r.customer_id \in CustomerKeys(files)
        /\ \A r \in committed["dim_product"] : r.product_id \in ProductKeys(files)
        /\ \A r \in committed["dim_store"] : r.store_id \in StoreKeys(files)
        /\ \A r \in committed["fact_sales"] : r.transaction_id \in SaleKeys(files)
        /\ committed = Snapshot(files)

C2_Witness ==
    /\ pc = "returned"
    /\ \E r \in atStart["dim_customer"] : r.customer_id \notin CustomerKeys(files)
    /\ \E r \in atStart["dim_store"] : r.store_id \notin StoreKeys(files)
    /\ \E r \in atStart["fact_sales"] : r.transaction_id \notin SaleKeys(files)
    /\ committed["fact_sales"] # {}

\* C3: a second run on the unchanged prepared files of a successful run
\* (no statement failing for a reason outside the data) succeeds too and
\* leaves the four tables with the contents the first run left.
C3_IdempotentRefresh ==
    (rerun /\ Terminal /\ cause # "env") =>
        /\ pc = "returned"
        /\ committed = prevDb
        /\ \A t \in Tables : Cardinality(committed[t]) = Cardinality(prevDb[t])

C3_Witness ==
    /\ rerun /\ pc = "returned"
    /\ Cardinality(committed["fact_sales"]) = 2
    /\ committed["dim_customer"] # {}

\* C4: a run whose inputs hold a duplicate primary key or a sales row with
\* a reference to a dimension row that is not loaded never succeeds.
C4_ConstraintViolationsFatal ==
    pc = "returned" => ~(DuplicateKey(files) \/ DanglingReference(files))

\* C5: after a successful run each dimension has as many rows as its
\* dataset has distinct keys, dim_store as many as the sales have distinct
\* StoreIDs, and fact_sales as many as the sales dataset has rows.
C5_RowCountConservation ==
    pc = "returned" =>
        /\ Cardinality(committed["dim_customer"]) = Cardinality(CustomerKeys(files))
        /\ Cardinality(committed["dim_product"]) = Cardinality(ProductKeys(files))
        /\ Cardinality(committed["dim_store"]) = Cardinality(StoreKeys(files))
        /\ Cardinality(committed["fact_sales"]) = Len(files.sales)

C5_Witness ==
    /\ pc = "returned"
    /\ Len(files.sales) = 2
    /\ Cardinality(StoreKeys(files)) = 1
    /\ Len(files.customers) = 1

\* C6: insert_stores yields exactly one dim_store row per distinct StoreID
\* of the sales rows, named "Store <id>", whatever the order of the rows
\* and however often a StoreID repeats.
C6_DerivedStores ==
    st_pc = "loaded" =>
        LET ids == {st_sales[i].StoreID : i \in 1..Len(st_sales)}
        IN /\ {r.store_id : r \in st_dim_store} = ids
           /\ Cardinality(st_dim_store) = Cardinality(ids)
           /\ \A r \in st_dim_store :
                 r.store_name = "Store " \o ToString(r.store_id)
           /\ st_dim_store = st_first
           /\ ids = {1, 2, 3} =>
                 st_dim_store = {[store_id |-> 1, store_name |-> "Store 1"],
                                 [store_id |-> 2, store_name |-> "Store 2"],
                                 [store_id |-> 3, store_name |-> "Store 3"]}

\* the example of the specification: StoreIDs 3, 1, 3, 2, reached by
\* reordering another arrangement of the same rows
C6_Witness ==
    /\ st_pc = "loaded"
    /\ [i \in 1..Len(st_sales) |-> st_sales[i].StoreID] = <<3, 1, 3, 2>>
    /\ st_sales[1].TransactionID # 1
    /\ Cardinality(st_dim_store) = 3

\* C7: a finished run never leaves its connection open, and a run in which
\* a statement failed (connect included) ends by raising, not by returning.
C7_ConnectionReleased ==
    Terminal =>
        /\ conn \in {"closed", "unbound"}
        /\ (conn = "unbound") <=> (failedAt = "connect")
        /\ failedAt # "none" => (pc = "raised" /\ exc # "none")
        /\ failedAt = "none" => (pc = "returned" /\ exc = "none")

C7_Witness ==
    /\ pc = "raised"
    /\ failedAt = "insert_sales"
    /\ cause = "integrity"
    /\ conn = "closed"

\* prefix of the order of steps written in load_data_to_db
IsPrefix(s, t) == Len(s) <= Len(t) /\ \A i \in 1..Len(s) : s[i] = t[i]

C9_Order ==
    /\ IsPrefix(log, <<"create_schema", "delete_fact_sales",
                       "delete_dim_customer", "delete_dim_product",
                       "delete_dim_store", "read_csv", "insert_customers",
                       "insert_products", "insert_stores", "insert_sales",
                       "commit">>)
    /\ pc \in {"delete_dim_customer", "delete_dim_product", "delete_dim_store"}
          => working["fact_sales"] = {}
    /\ failedAt \in Range(StepOrder) =>
          /\ failedAt \notin Range(log)
          /\ \A i \in 1..Len(StepOrder) :
                StepOrder[i] = failedAt => Len(log) = i - 1
    /\ failedAt = "connect" => log = <<>>
    /\ pc = "returned" <=> (Terminal /\ Len(log) = 11)

\* C9 as stated: the steps run in the written order, a failure stops the
\* run with no later step, and every run ends either committed or rolled
\* back.
C9_StepOrder_AsStated ==
    /\ C9_Order
    /\ Terminal => ((pc = "returned" /\ ~rolledBack) \/ (pc = "raised" /\ rolledBack))

\* C9 amended: as above, for every run that opened its connection; a run
\* whose connect() fails executes no step and neither commits nor rolls back.
C9_StepOrder ==
    /\ C9_Order
    /\ (Terminal /\ conn # "unbound") =>
          ((pc = "returned" /\ ~rolledBack) \/ (pc = "raised" /\ rolledBack))
    /\ (Terminal /\ conn = "unbound") =>
          (pc = "raised" /\ ~rolledBack /\ log = <<>> /\ committed = atStart)

C9_Witness ==
    /\ pc = "raised"
    /\ rolledBack
    /\ failedAt = "insert_products"
    /\ cause = "integrity"
    /\ Len(log) = 7

\* C8: the prepared products hold no two rows with one ProductID and the
\* prepared campaigns no two rows with one campaignid.
C8_PreparedKeysUnique ==
    /\ prep_pc.products = "written" =>
          \A i, j \in 1..Len(prepared_products) :
              prepared_products[i].ProductID = prepared_products[j].ProductID
                  => i = j
    /\ prep_pc.campaigns = "written" =>
          \A i, j \in 1..Len(prepared_campaigns) :
              prepared_campaigns[i].campaignid = prepared_campaigns[j].campaignid
                  => i = j

\* C10: after a successful run every fact_sales row has a dim_store row
\* with its store_id.
C10_StoreIntegrity ==
    pc = "returned" =>
        \A f \in committed["fact_sales"] :
            \E st \in committed["dim_store"] : st.store_id = f.store_id

C10_Witness ==
    /\ pc = "returned"
    /\ Cardinality({f.store_id : f \in committed["fact_sales"]}) = 2

=============================================================================
